---- MODULE Spec2Model ----
(***************************************************************************)
(* Model of pkg.Install (src/pkg/install.go): resolve the request, ensure  *)
(* the cache directory, download every archive, then for each package      *)
(* verify the manifest signature and the content digests.                  *)
(*                                                                         *)
(* Strings and byte streams are sequences of tokens.  A token stands for   *)
(* one or more bytes; TAB and NL are the two separator bytes the manifest  *)
(* parser looks at.                                                        *)
(***************************************************************************)
EXTENDS Naturals, Sequences, FiniteSets

VARIABLES pkgs, remote, cacheDir, files, pc, ms, idx, err,
          gets, writes, log, trust, content, handles, race

vars == <<pkgs, remote, cacheDir, files, pc, ms, idx, err,
          gets, writes, log, trust, content, handles, race>>

(* ------------------------------ bounds --------------------------------- *)

\* number of installable packages of the catalog; requests hold up to this many names
MaxPkgs == 2
\* lines of a manifest transcript
MaxLines == 2
\* content entries of an archive
MaxEntries == 2
\* concurrent calls of Install on one root
MaxCalls == 2

(* ------------------------------ strings -------------------------------- *)

TAB == "TAB"
NL == "NL"

\* the directories of "var/cache/pm"
CacheDepth == 3

ManifestName == <<"manifest.sha256">>
SigName == <<"manifest.sha256.asc">>

\* the two file paths and the two file bodies of the model
Paths == {<<"a">>, <<"b">>}
Datas == {<<"x">>, <<"y">>}

RECURSIVE Concat(_)
Concat(ss) == IF ss = <<>> THEN <<>> ELSE Head(ss) \o Concat(Tail(ss))

RECURSIVE JoinTokens(_)
JoinTokens(d) == IF d = <<>> THEN "" ELSE Head(d) \o JoinTokens(Tail(d))

\* fmt.Sprintf("%x", sha256(data)): one lower-case hex token per distinct data
Sha256Hex(data) == << "h" \o JoinTokens(data) >>

(* --------------------------- manifest parsing -------------------------- *)

\* bufio.Scanner with ScanLines over the token stream t: the lines without
\* their NL; a last line without NL is a line when it is not empty.
RECURSIVE ScanFrom(_, _)
ScanFrom(t, cur) ==
    IF t = <<>> THEN (IF cur = <<>> THEN <<>> ELSE <<cur>>)
    ELSE IF Head(t) = NL THEN <<cur>> \o ScanFrom(Tail(t), <<>>)
    ELSE ScanFrom(Tail(t), Append(cur, Head(t)))

ScanLines(t) == ScanFrom(t, <<>>)

\* strings.Split(line, "\t"): always at least one field
RECURSIVE SplitFrom(_, _)
SplitFrom(line, cur) ==
    IF line = <<>> THEN <<cur>>
    ELSE IF Head(line) = TAB THEN <<cur>> \o SplitFrom(Tail(line), <<>>)
    ELSE SplitFrom(Tail(line), Append(cur, Head(line)))

Split(line) == SplitFrom(line, <<>>)

\* cs[elems[1]] = elems[0]
Put(cs, path, digest) ==
    [p \in (DOMAIN cs) \cup {path} |-> IF p = path THEN digest ELSE cs[p]]

EmptyMap == [p \in {} |-> <<>>]

\* ParseLines with a line of another field count skipped, not fatal
RECURSIVE ParseLinesSkipping(_, _, _)
ParseLinesSkipping(lines, i, cs) ==
    IF i > Len(lines) THEN [cs |-> cs, bad |-> 0, fields |-> 2]
    ELSE LET elems == Split(lines[i])
         IN  IF Len(elems) # 2 THEN ParseLinesSkipping(lines, i + 1, cs)
             ELSE ParseLinesSkipping(lines, i + 1, Put(cs, elems[2], elems[1]))

\* the scan loop of verifyPkgContents over the lines: the map built so far, and
\* the number of the line whose field count is not 2 (0: none)
RECURSIVE ParseLines(_, _, _)
ParseLines(lines, i, cs) ==
    IF i > Len(lines) THEN [cs |-> cs, bad |-> 0, fields |-> 2]
    ELSE LET elems == Split(lines[i])
         IN  IF Len(elems) # 2 THEN [cs |-> cs, bad |-> i, fields |-> Len(elems)]
             ELSE ParseLines(lines, i + 1, Put(cs, elems[2], elems[1]))

ParseManifest(t) == ParseLines(ScanLines(t), 1, EmptyMap)

(* ------------------------------ archives ------------------------------- *)

\* A cache file: whether it exists, the tar entries readable from it in
\* physical order, and whether the tape ends cleanly after them (intact) or
\* tar.Reader.Next fails there (a truncated or non-tar file).
\* An entry: [name, dir, data].
NoFile == [exists |-> FALSE, entries |-> <<>>, intact |-> FALSE]

FileOf(entries) == [exists |-> TRUE, entries |-> entries, intact |-> TRUE]

Garbage == [exists |-> TRUE, entries |-> <<>>, intact |-> FALSE]

NoErr == [kind |-> "", name |-> <<>>]

Failure(kind, name) == [kind |-> kind, name |-> name]

\* FirstNamed with the scan not stopped at a match: the last entry named fn
RECURSIVE FirstNamedLast(_, _, _)
FirstNamedLast(entries, fn, i) ==
    IF i > Len(entries) THEN 0
    ELSE LET later == FirstNamedLast(entries, fn, i + 1)
         IN  IF later # 0 THEN later
             ELSE IF entries[i].name = fn THEN i ELSE 0

\* index of the first entry from i on whose name is fn, 0 when there is none
RECURSIVE FirstNamed(_, _, _)
FirstNamed(entries, fn, i) ==
    IF i > Len(entries) THEN 0
    ELSE IF entries[i].name = fn THEN i
    ELSE FirstNamed(entries, fn, i + 1)

\* getReadCloser(tn, fn): at is the entry the returned reader is positioned
\* on; open counts the os.File handles the call leaves open (the one the
\* tarSlurper owns on success, the one never closed on the error returns
\* after os.Open succeeded).
getReadCloser(file, fn) ==
    IF ~file.exists
    THEN [err |-> Failure("opening pkg file", <<>>), at |-> 0, open |-> 0]
    ELSE LET i == FirstNamed(file.entries, fn, 1)
         IN  IF i # 0 THEN [err |-> NoErr, at |-> i, open |-> 1]
             ELSE IF file.intact
                  THEN [err |-> Failure("not found", fn), at |-> 0, open |-> 1]
                  ELSE [err |-> Failure("tar traversal", <<>>), at |-> 0, open |-> 1]

(* ----------------------------- trust store ----------------------------- *)

TrustedKey == "trusted"
OtherKey == "untrusted"

\* a detached signature: the signing key, then the bytes it was made over
Signature(key, bytes) == <<key>> \o bytes

\* keyring.Verify(root, man, sig): nil exactly when sig is a signature by a
\* key of the trust store over the bytes read from man
Verify(man, sig) ==
    /\ sig # <<>>
    /\ Head(sig) = TrustedKey
    /\ Tail(sig) = man

(* --------------------------- the two verifiers ------------------------- *)

\* verifyManifestIntegrity with the result of keyring.Verify dropped
verifyManifestIntegrityUnchecked(file) ==
    LET man == getReadCloser(file, ManifestName)
        sig == getReadCloser(file, SigName)
    IN  IF man.err # NoErr
        THEN [err |-> man.err, calls |-> 0, bytes |-> <<>>, open |-> man.open]
        ELSE IF sig.err # NoErr
        THEN [err |-> sig.err, calls |-> 0, bytes |-> <<>>,
              open |-> man.open + sig.open]
        ELSE [err |-> NoErr, calls |-> 1, bytes |-> file.entries[man.at].data,
              open |-> 0]

\* verifyManifestIntegrity(root, m) on the cache file of m: the error
\* returned, the number of keyring.Verify calls made, the manifest bytes
\* handed to Verify, and the handles left open on return.
verifyManifestIntegrity(file) ==
    LET man == getReadCloser(file, ManifestName)
        sig == getReadCloser(file, SigName)
    IN  IF man.err # NoErr
        THEN [err |-> man.err, calls |-> 0, bytes |-> <<>>, open |-> man.open]
        ELSE IF sig.err # NoErr
        THEN [err |-> sig.err, calls |-> 0, bytes |-> <<>>,
              open |-> man.open + sig.open]
        ELSE LET mb == file.entries[man.at].data
                 sb == file.entries[sig.at].data
             IN  IF ~Verify(mb, sb)
                 THEN [err |-> Failure("verifying manifest", <<>>), calls |-> 1,
                       bytes |-> mb, open |-> man.open + sig.open]
                 ELSE [err |-> NoErr, calls |-> 1, bytes |-> mb, open |-> 0]

\* Traverse with the digest of an entry computed and never compared
RECURSIVE TraverseNoCompare(_, _, _, _)
TraverseNoCompare(file, cs, i, done) ==
    IF i > Len(file.entries)
    THEN [err |-> IF file.intact THEN NoErr ELSE Failure("tar traversal", <<>>),
          at |-> i, hashed |-> done]
    ELSE LET hdr == file.entries[i]
         IN  IF hdr.name = ManifestName \/ hdr.name = SigName
             THEN TraverseNoCompare(file, cs, i + 1, done)
             ELSE IF hdr.dir
             THEN TraverseNoCompare(file, cs, i + 1, done)
             ELSE IF hdr.name \notin DOMAIN cs
             THEN [err |-> Failure("extra file", hdr.name), at |-> i, hashed |-> done]
             ELSE TraverseNoCompare(file, cs, i + 1, Append(done, i))

\* Traverse with an entry missing from the map skipped, not fatal
RECURSIVE TraverseSkipsExtra(_, _, _, _)
TraverseSkipsExtra(file, cs, i, done) ==
    IF i > Len(file.entries)
    THEN [err |-> IF file.intact THEN NoErr ELSE Failure("tar traversal", <<>>),
          at |-> i, hashed |-> done]
    ELSE LET hdr == file.entries[i]
         IN  IF hdr.name = ManifestName \/ hdr.name = SigName
             THEN TraverseSkipsExtra(file, cs, i + 1, done)
             ELSE IF hdr.dir
             THEN TraverseSkipsExtra(file, cs, i + 1, done)
             ELSE IF hdr.name \notin DOMAIN cs
             THEN TraverseSkipsExtra(file, cs, i + 1, done)
             ELSE IF cs[hdr.name] # Sha256Hex(hdr.data)
             THEN [err |-> Failure("checksum was incorrect", hdr.name), at |-> i,
                   hashed |-> Append(done, i)]
             ELSE TraverseSkipsExtra(file, cs, i + 1, Append(done, i))

\* the tar traversal of verifyPkgContents from entry i on, against the map
\* cs: the error, the entry at which the loop stopped (Len + 1: it ran to
\* the end of the tape) and the entries whose digest was computed, in order
RECURSIVE Traverse(_, _, _, _)
Traverse(file, cs, i, done) ==
    IF i > Len(file.entries)
    THEN [err |-> IF file.intact THEN NoErr ELSE Failure("tar traversal", <<>>),
          at |-> i, hashed |-> done]
    ELSE LET hdr == file.entries[i]
         IN  IF hdr.name = ManifestName \/ hdr.name = SigName
             THEN Traverse(file, cs, i + 1, done)
             ELSE IF hdr.dir
             THEN Traverse(file, cs, i + 1, done)
             ELSE IF hdr.name \notin DOMAIN cs
             THEN [err |-> Failure("extra file", hdr.name), at |-> i, hashed |-> done]
             ELSE IF cs[hdr.name] # Sha256Hex(hdr.data)
             THEN [err |-> Failure("checksum was incorrect", hdr.name), at |-> i,
                   hashed |-> Append(done, i)]
             ELSE Traverse(file, cs, i + 1, Append(done, i))

\* index of the last entry whose name is fn, 0 when there is none
LastNamed(entries, fn) ==
    LET at == {i \in DOMAIN entries : entries[i].name = fn}
    IN  IF at = {} THEN 0 ELSE CHOOSE i \in at : \A j \in at : j <= i

\* verifyPkgContents reading the last manifest entry of the archive
verifyPkgContentsLastManifest(file) ==
    LET man == getReadCloser(file, ManifestName)
    IN  IF man.err # NoErr
        THEN [err |-> man.err, bytes |-> <<>>, cs |-> EmptyMap, at |-> 0,
              hashed |-> <<>>, open |-> man.open]
        ELSE LET mb == file.entries[LastNamed(file.entries, ManifestName)].data
                 parsed == ParseManifest(mb)
             IN  IF parsed.bad # 0
                 THEN [err |-> Failure("manifest format error", <<>>), bytes |-> mb,
                       cs |-> parsed.cs, at |-> 0, hashed |-> <<>>, open |-> man.open]
                 ELSE LET tr == Traverse(file, parsed.cs, 1, <<>>)
                      IN  [err |-> tr.err, bytes |-> mb, cs |-> parsed.cs,
                           at |-> tr.at, hashed |-> tr.hashed, open |-> 1]

\* verifyPkgContents(root, m) on the cache file of m: the error, the
\* manifest bytes parsed, the map built from them, the entry the traversal
\* stopped at (0: it never started), the entries hashed and the handles left
\* open on return (pf of the traversal is never closed).
verifyPkgContents(file) ==
    LET man == getReadCloser(file, ManifestName)
    IN  IF man.err # NoErr
        THEN [err |-> man.err, bytes |-> <<>>, cs |-> EmptyMap, at |-> 0,
              hashed |-> <<>>, open |-> man.open]
        ELSE LET mb == file.entries[man.at].data
                 parsed == ParseManifest(mb)
             IN  IF parsed.bad # 0
                 THEN [err |-> Failure("manifest format error", <<>>), bytes |-> mb,
                       cs |-> parsed.cs, at |-> 0, hashed |-> <<>>, open |-> man.open]
                 ELSE LET tr == Traverse(file, parsed.cs, 1, <<>>)
                      IN  [err |-> tr.err, bytes |-> mb, cs |-> parsed.cs,
                           at |-> tr.at, hashed |-> tr.hashed, open |-> 1]

(* ------------------------- the inputs of the model --------------------- *)

SeqsUpTo(S, n) == UNION {[1..k -> S] : k \in 0..n}

ManEntry(t) == [name |-> ManifestName, dir |-> FALSE, data |-> t]
SigEntry(s) == [name |-> SigName, dir |-> FALSE, data |-> s]
FileEntry(p, d) == [name |-> p, dir |-> FALSE, data |-> d]
DirEntry(p) == [name |-> p, dir |-> TRUE, data |-> <<>>]

\* "<digest>TAB<path>"
Line(digest, path) == digest \o <<TAB>> \o path

GoodLines == {Line(Sha256Hex(d), p) : d \in Datas, p \in Paths}

\* a blank line, a line of one field, a line of three fields
BadLines == {<<>>, Sha256Hex(<<"x">>),
             Line(Sha256Hex(<<"x">>), <<"a">>) \o <<TAB>> \o <<"a">>}

\* the transcripts of up to n lines of ls, every line newline-terminated
Terminated(ls, n) ==
    {Concat([i \in DOMAIN q |-> q[i] \o <<NL>>]) : q \in SeqsUpTo(ls, n)}

\* the same, and those whose last line lacks its newline
Transcripts(ls, n) ==
    LET ts == Terminated(ls, n)
    IN  ts \cup {SubSeq(t, 1, Len(t) - 1) : t \in ts \ {<<>>}}

ContentKinds == {FileEntry(p, d) : p \in Paths, d \in Datas} \cup {DirEntry(<<"a">>)}

Contents(n) == SeqsUpTo(ContentKinds, n)

\* an archive as the packager builds it: manifest, signature, content
Packed(t, key, body) ==
    <<ManEntry(t), SigEntry(Signature(key, t))>> \o body

\* any manifest, little content
ManifestArchives ==
    {Packed(t, TrustedKey, c) :
        t \in Transcripts(GoodLines \cup BadLines, MaxLines), c \in Contents(1)}

\* well-formed manifests, any content
ContentArchives ==
    {Packed(t, TrustedKey, c) :
        t \in Terminated(GoodLines, MaxLines), c \in Contents(MaxEntries)}

\* control entries missing, repeated, misplaced or not matching
ControlArchives ==
    LET ts == Terminated(GoodLines, 1)
    IN  UNION {
          {<<SigEntry(Signature(TrustedKey, t))>> \o c,
           <<ManEntry(t)>> \o c,
           Packed(t, OtherKey, c),
           c \o Packed(t, TrustedKey, <<>>)}
          \cup {<<ManEntry(t), SigEntry(Signature(TrustedKey, u))>> \o c :
                   u \in ts \ {t}}
          \cup {<<ManEntry(t), SigEntry(Signature(TrustedKey, t)), ManEntry(u)>> \o c :
                   u \in ts \ {t}}
          \cup {<<ManEntry(u), SigEntry(Signature(TrustedKey, t)), ManEntry(t)>> \o c :
                   u \in ts \ {t}}
          \cup {<<ManEntry(t), SigEntry(Signature(OtherKey, t)),
                  SigEntry(Signature(TrustedKey, t))>> \o c}
          : t \in ts, c \in Contents(1)}

Archives == ManifestArchives \cup ContentArchives \cup ControlArchives

\* the archives of the batch runs: one declared file, signed by either key,
\* holding either body
BatchArchives ==
    {Packed(Line(Sha256Hex(<<"x">>), <<"a">>) \o <<NL>>, k, <<FileEntry(<<"a">>, d)>>) :
        k \in {TrustedKey, OtherKey}, d \in Datas}

\* what a source URL answers: a transport failure, or a status and a body
TransportFailure == [kind |-> "neterr", status |-> "", body |-> NoFile]
\* the source accepts the connection and never answers
Silent == [kind |-> "silent", status |-> "", body |-> NoFile]
Response(status, body) == [kind |-> "response", status |-> status, body |-> body]

NotFoundPage == Response("404", Garbage)

Responses == {Response("200", FileOf(a)) : a \in Archives}

BatchResponses ==
    {TransportFailure, Silent, NotFoundPage}
        \cup {Response("200", FileOf(a)) : a \in BatchArchives}

\* what a failed io.Copy leaves in the file: some of the entries, cut short
Partial(body, k) ==
    [exists |-> TRUE, entries |-> SubSeq(body.entries, 1, k), intact |-> FALSE]

\* a cache file left by an earlier install
Stale ==
    FileOf(Packed(Line(Sha256Hex(<<"y">>), <<"b">>) \o <<NL>>, OtherKey,
                  <<FileEntry(<<"b">>, <<"y">>), FileEntry(<<"a">>, <<"x">>)>>))

\* a cache file left by an earlier fetch that failed while copying
Torn == Partial(Stale, 3)

(* ------------------------------- catalog ------------------------------- *)

\* package ids of the catalog; a requested name outside it is not installable
Pkg == 1..MaxPkgs
Unknown == 0

Range(q) == {q[i] : i \in DOMAIN q}

\* requests: lists of distinct names
Requests ==
    {q \in SeqsUpTo(Pkg \cup {Unknown}, MaxPkgs) : Cardinality(Range(q)) = Len(q)}

\* av.Installable(pkgs): the metas of the names, in request order, or an
\* error when a name is not installable
Installable(names) ==
    IF Range(names) \subseteq Pkg
    THEN [err |-> NoErr, ms |-> names]
    ELSE [err |-> Failure("not installable", <<>>), ms |-> <<>>]

(* -------------------------------- state -------------------------------- *)

\* pkgs        the names Install was called with
\* remote      what the source URL of each package answers
\* cacheDir    <root>/var/cache/pm: "absent", "dir", or "file" (not a directory)
\* files       the cache file of each package
\* pc          where Install is: "Resolving", "EnsureCache", "Fetching",
\*             "VerifyingTrust", "VerifyingContent", "returned", or "inGet"
\*             (inside an http.Get that has not returned)
\* ms          the resolved metas
\* idx         position of the running range loop in ms
\* err         what Install returned: the wrapping message (stage) and the cause
\* gets        the packages an HTTP GET was issued for, in order
\* writes      the calls that changed the filesystem (MkdirAll, os.Create), in order
\* log         the verification calls that returned, in order
\* trust       per package, what verifyManifestIntegrity did
\* content     per package, what verifyPkgContents did
\* handles     archive file handles opened and not closed

\* race        the concurrent calls of the cache directory setup (see below);
\*             no call in the runs of one Install

NoCalls == [made |-> 0, calls |-> <<>>]

NoResult == [stage |-> "", kind |-> "", name |-> <<>>]

Wrap(stage, e) == [stage |-> stage, kind |-> e.kind, name |-> e.name]

NoTrust == [ran |-> FALSE, err |-> NoErr, calls |-> 0, bytes |-> <<>>, open |-> 0]

NoContent == [ran |-> FALSE, err |-> NoErr, bytes |-> <<>>, cs |-> EmptyMap,
              at |-> 0, hashed |-> <<>>, open |-> 0]

Start ==
    /\ pc = "Resolving"
    /\ ms = <<>>
    /\ idx = 1
    /\ err = NoResult
    /\ gets = <<>>
    /\ writes = <<>>
    /\ log = <<>>
    /\ trust = [p \in Pkg |-> NoTrust]
    /\ content = [p \in Pkg |-> NoContent]
    /\ handles = 0

\* a batch of packages, each served one of the batch responses, over a cache
\* that may hold files of an earlier install
InitBatch ==
    /\ pkgs \in Requests
    /\ remote \in [Pkg -> BatchResponses]
    /\ \A p \in Pkg \ Range(pkgs) : remote[p] = TransportFailure
    /\ cacheDir \in {"absent", "dir", "file"}
    /\ files \in [Pkg -> {NoFile, Stale, Torn}]
    /\ \A p \in Pkg : files[p] # NoFile => cacheDir = "dir" /\ p \in Range(pkgs)
    /\ Start
    /\ race = NoCalls

\* one package, served any archive of the model
InitOne ==
    /\ pkgs = <<1>>
    /\ \E r \in Responses :
          remote = [p \in Pkg |-> IF p = 1 THEN r ELSE TransportFailure]
    /\ cacheDir \in {"absent", "dir"}
    /\ files = [p \in Pkg |-> NoFile]
    /\ Start
    /\ race = NoCalls

Init == InitBatch \/ InitOne

(* ------------------------------- Install ------------------------------- *)

Return(stage, e) ==
    /\ pc' = "returned"
    /\ err' = Wrap(stage, e)

\* Resolve with the error of av.Installable dropped: the installable names go on
ResolveSkipsUnknown ==
    /\ pc = "Resolving"
    /\ \E loaded \in BOOLEAN :
          IF ~loaded
          THEN /\ Return("loading available db", Failure("load", <<>>))
               /\ ms' = ms
          ELSE /\ ms' = SelectSeq(pkgs, LAMBDA n : n \in Pkg)
               /\ pc' = "EnsureCache"
               /\ err' = err
    /\ UNCHANGED <<race, pkgs, remote, cacheDir, files, idx, gets, writes, log, trust,
                   content, handles>>

\* db.LoadAvailable and av.Installable
Resolve ==
    /\ pc = "Resolving"
    /\ \E loaded \in BOOLEAN :
          IF ~loaded
          THEN /\ Return("loading available db", Failure("load", <<>>))
               /\ ms' = ms
          ELSE LET r == Installable(pkgs)
               IN  IF r.err # NoErr
                   THEN /\ Return("checking ability to install", r.err)
                        /\ ms' = ms
                   ELSE /\ ms' = r.ms
                        /\ pc' = "EnsureCache"
                        /\ err' = err
    /\ UNCHANGED <<race, pkgs, remote, cacheDir, files, idx, gets, writes, log, trust,
                   content, handles>>

Written(op, m) == [op |-> op, pkg |-> m]

\* the cache directory: created when nothing is at its path, then required to
\* be a directory
EnsureCache ==
    /\ pc = "EnsureCache"
    /\ \E made \in BOOLEAN :
          IF cacheDir = "absent" /\ ~made
          THEN /\ Return("creating non-existent cache dir", Failure("mkdir", <<>>))
               /\ UNCHANGED <<cacheDir, writes>>
          ELSE LET dir == IF cacheDir = "absent" THEN "dir" ELSE cacheDir
               IN  /\ cacheDir' = dir
                   /\ writes' = IF cacheDir = "absent"
                                THEN Append(writes, Written("MkdirAll", 0))
                                ELSE writes
                   /\ IF dir # "dir"
                      THEN Return("", Failure("is not a directory", <<>>))
                      ELSE /\ pc' = "Fetching"
                           /\ err' = err
    /\ UNCHANGED <<race, pkgs, remote, files, ms, idx, gets, log, trust, content, handles>>

\* os.Create without O_TRUNC: a file that exists keeps its bytes
CreateKeeping(old) ==
    IF old.exists THEN old ELSE [exists |-> TRUE, entries |-> <<>>, intact |-> TRUE]

\* os.Create(fn): the file exists and is empty, whatever it held
Create(old) == [exists |-> TRUE, entries |-> <<>>, intact |-> TRUE]

\* io.Copy(f, resp.Body) into the file from its start: the body, then what
\* the file held beyond the length of the body
Copy(f, body) ==
    [exists |-> TRUE,
     entries |-> body.entries
                   \o SubSeq(f.entries, Len(body.entries) + 1, Len(f.entries)),
     intact |-> body.intact]

\* the name under which a call of os.Create is logged: it truncated a file
\* or made a new one
CreateOp(old) == IF old.exists THEN "Truncate" ELSE "Create"

\* Download with a failed GET skipped: the loop goes on to the next package
DownloadSkipsFailed ==
    /\ pc = "Fetching"
    /\ idx <= Len(ms)
    /\ LET m == ms[idx]
           resp == remote[m]
       IN  /\ gets' = Append(gets, m)
           /\ IF resp.kind = "neterr"
              THEN /\ idx' = idx + 1
                   /\ UNCHANGED <<files, writes, pc, err>>
              ELSE /\ writes' = Append(writes, Written(CreateOp(files[m]), m))
                   /\ files' = [files EXCEPT ![m] = Copy(Create(files[m]), resp.body)]
                   /\ idx' = idx + 1
                   /\ UNCHANGED <<pc, err>>
    /\ UNCHANGED <<race, pkgs, remote, cacheDir, ms, log, trust, content, handles>>

\* one iteration of the loop of download: GET, create, copy, close
Download ==
    /\ pc = "Fetching"
    /\ idx <= Len(ms)
    /\ LET m == ms[idx]
           resp == remote[m]
       IN  /\ gets' = Append(gets, m)
           /\ IF resp.kind = "neterr"
              THEN /\ Return("downloading", Failure("http get", <<>>))
                   /\ UNCHANGED <<files, idx, writes>>
              ELSE IF resp.kind = "silent"
              THEN /\ pc' = "inGet"
                   /\ UNCHANGED <<files, idx, writes, err>>
              ELSE \E outcome \in {"ok", "create", "copy", "close"} :
                     CASE outcome = "create" ->
                            /\ Return("downloading", Failure("creating", <<>>))
                            /\ UNCHANGED <<files, idx, writes>>
                       [] outcome = "copy" ->
                            /\ writes' = Append(writes, Written(CreateOp(files[m]), m))
                            /\ \E k \in 0..Len(resp.body.entries) :
                                  files' = [files EXCEPT ![m] = Partial(resp.body, k)]
                            /\ Return("downloading", Failure("copy to disk", <<>>))
                            /\ idx' = idx
                       [] outcome = "close" ->
                            /\ writes' = Append(writes, Written(CreateOp(files[m]), m))
                            /\ files' = [files EXCEPT ![m] =
                                            Copy(Create(files[m]), resp.body)]
                            /\ Return("downloading", Failure("closing resp body", <<>>))
                            /\ idx' = idx
                       [] outcome = "ok" ->
                            /\ writes' = Append(writes, Written(CreateOp(files[m]), m))
                            /\ files' = [files EXCEPT ![m] =
                                            Copy(Create(files[m]), resp.body)]
                            /\ idx' = idx + 1
                            /\ UNCHANGED <<pc, err>>
    /\ UNCHANGED <<race, pkgs, remote, cacheDir, ms, log, trust, content, handles>>

\* download returns nil; the verification loop starts
DownloadReturn ==
    /\ pc = "Fetching"
    /\ idx > Len(ms)
    /\ pc' = "VerifyingTrust"
    /\ idx' = 1
    /\ UNCHANGED <<race, pkgs, remote, cacheDir, files, ms, err, gets, writes, log,
                   trust, content, handles>>

Event(op, m, e) == [op |-> op, pkg |-> m, ok |-> e = NoErr]

\* VerifyTrust with the error of verifyManifestIntegrity not returned
VerifyTrustNoReturn ==
    /\ pc = "VerifyingTrust"
    /\ idx <= Len(ms)
    /\ LET m == ms[idx]
           r == verifyManifestIntegrity(files[m])
       IN  /\ trust' = [trust EXCEPT ![m] =
                  [ran |-> TRUE, err |-> r.err, calls |-> r.calls, bytes |-> r.bytes,
                   open |-> r.open]]
           /\ log' = Append(log, Event("trust", m, r.err))
           /\ handles' = handles + r.open
           /\ pc' = "VerifyingContent"
           /\ err' = err
    /\ UNCHANGED <<race, pkgs, remote, cacheDir, files, ms, idx, gets, writes, content>>

\* the first half of an iteration of the verification loop
VerifyTrust ==
    /\ pc = "VerifyingTrust"
    /\ idx <= Len(ms)
    /\ LET m == ms[idx]
           r == verifyManifestIntegrity(files[m])
       IN  /\ trust' = [trust EXCEPT ![m] =
                  [ran |-> TRUE, err |-> r.err, calls |-> r.calls, bytes |-> r.bytes,
                   open |-> r.open]]
           /\ log' = Append(log, Event("trust", m, r.err))
           /\ handles' = handles + r.open
           /\ IF r.err # NoErr
              THEN Return("verifying pkg integrity", r.err)
              ELSE /\ pc' = "VerifyingContent"
                   /\ err' = err
    /\ UNCHANGED <<race, pkgs, remote, cacheDir, files, ms, idx, gets, writes, content>>

\* VerifyContent with the error of verifyPkgContents not returned: the loop
\* goes on to the next package
VerifyContentContinues ==
    /\ pc = "VerifyingContent"
    /\ LET m == ms[idx]
           r == verifyPkgContents(files[m])
       IN  /\ content' = [content EXCEPT ![m] =
                  [ran |-> TRUE, err |-> r.err, bytes |-> r.bytes, cs |-> r.cs,
                   at |-> r.at, hashed |-> r.hashed, open |-> r.open]]
           /\ log' = Append(log, Event("content", m, r.err))
           /\ handles' = handles + r.open
           /\ pc' = "VerifyingTrust"
           /\ idx' = idx + 1
           /\ err' = err
    /\ UNCHANGED <<race, pkgs, remote, cacheDir, files, ms, gets, writes, trust>>

\* the second half of an iteration of the verification loop
VerifyContent ==
    /\ pc = "VerifyingContent"
    /\ LET m == ms[idx]
           r == verifyPkgContents(files[m])
       IN  /\ content' = [content EXCEPT ![m] =
                  [ran |-> TRUE, err |-> r.err, bytes |-> r.bytes, cs |-> r.cs,
                   at |-> r.at, hashed |-> r.hashed, open |-> r.open]]
           /\ log' = Append(log, Event("content", m, r.err))
           /\ handles' = handles + r.open
           /\ IF r.err # NoErr
              THEN /\ Return("verifying pkg contents", r.err)
                   /\ idx' = idx
              ELSE /\ pc' = "VerifyingTrust"
                   /\ idx' = idx + 1
                   /\ err' = err
    /\ UNCHANGED <<race, pkgs, remote, cacheDir, files, ms, gets, writes, trust>>

\* InstallReturn with the verified packages unpacked into the install tree
InstallReturnExtracting ==
    /\ pc = "VerifyingTrust"
    /\ idx > Len(ms)
    /\ Return("", Failure("NYI", <<>>))
    /\ writes' = Append(writes, Written("Extract", 0))
    /\ UNCHANGED <<race, pkgs, remote, cacheDir, files, ms, idx, gets, log,
                   trust, content, handles>>

\* the loop is over: return errors.New("NYI")
InstallReturn ==
    /\ pc = "VerifyingTrust"
    /\ idx > Len(ms)
    /\ Return("", Failure("NYI", <<>>))
    /\ UNCHANGED <<race, pkgs, remote, cacheDir, files, ms, idx, gets, writes, log,
                   trust, content, handles>>

Next ==
    \/ Resolve
    \/ EnsureCache
    \/ Download
    \/ DownloadReturn
    \/ VerifyTrust
    \/ VerifyContent
    \/ InstallReturn

Spec == Init /\ [][Next]_vars

\* the batch runs, in which Install runs on whenever it can take a step; a
\* step inside a call that has not returned is not one it can take
SpecLive == InitBatch /\ [][Next]_vars /\ WF_vars(Next)

(* ------------------- concurrent cache directory setup ------------------ *)

\* Lines 36-44 of Install run by several calls on one root, step by step.
\* cacheDir is <root>/var/cache/pm: CacheDepth directories below the root.
\* race.made   how many of them exist, from the root down
\* race.calls  per call: pc, where it is ("Exists": before fs.Exists; "Stat",
\*             "Mkdir", "Lstat": inside os.MkdirAll, at the directory number
\*             level; "IsDir": before fs.IsDir; "past": at line 46; "failed":
\*             Install returned an error); missing, fs.Exists returned false;
\*             won, its Mkdir made the cache directory; eexist, a Mkdir of
\*             its found the directory made
Calls == 1..MaxCalls

installVars == <<pkgs, remote, cacheDir, files, pc, ms, idx, err,
                 gets, writes, log, trust, content, handles>>

NewCall == [pc |-> "Exists", level |-> 0, missing |-> FALSE, won |-> FALSE,
            eexist |-> FALSE]

InitRace ==
    /\ pkgs = <<>>
    /\ remote = [p \in Pkg |-> TransportFailure]
    /\ cacheDir = "absent"
    /\ files = [p \in Pkg |-> NoFile]
    /\ Start
    /\ \E n \in 0..CacheDepth : race = [made |-> n, calls |-> [c \in Calls |-> NewCall]]

At(c, where) == race.calls[c].pc = where

Becomes(c, call) ==
    /\ race' = [race EXCEPT !.calls[c] = call]
    /\ UNCHANGED installVars

\* os.MkdirAll for directory l returned nil: the MkdirAll of the directory
\* below goes on to its Mkdir, the outermost returns to Install
Done(call, l) ==
    IF l = CacheDepth THEN [call EXCEPT !.pc = "IsDir", !.level = 0]
    ELSE [call EXCEPT !.pc = "Mkdir", !.level = l + 1]

\* if !fs.Exists(cacheDir)
ExistsCheck(c) ==
    /\ At(c, "Exists")
    /\ Becomes(c, IF race.made = CacheDepth
                  THEN [race.calls[c] EXCEPT !.pc = "IsDir"]
                  ELSE [race.calls[c] EXCEPT !.pc = "Stat", !.level = CacheDepth,
                                             !.missing = TRUE])

\* os.MkdirAll, fast path: Stat of the path; a directory is success, a
\* missing one makes it call itself on the parent (the root exists)
Stat(c) ==
    /\ At(c, "Stat")
    /\ LET l == race.calls[c].level
       IN  Becomes(c, IF race.made >= l THEN Done(race.calls[c], l)
                      ELSE [race.calls[c] EXCEPT !.level = l - 1])

\* Mkdir with "file exists" returned as the error of MkdirAll
MkdirStrict(c) ==
    /\ At(c, "Mkdir")
    /\ LET l == race.calls[c].level
       IN  IF race.made >= l
           THEN Becomes(c, [race.calls[c] EXCEPT !.pc = "failed", !.eexist = TRUE])
           ELSE /\ race' = [race EXCEPT
                             !.made = l,
                             !.calls[c] = Done([race.calls[c] EXCEPT
                                                  !.won = (l = CacheDepth)], l)]
                /\ UNCHANGED installVars

\* os.MkdirAll, after the parent: Mkdir of the path; it fails when the path
\* exists by now
Mkdir(c) ==
    /\ At(c, "Mkdir")
    /\ LET l == race.calls[c].level
       IN  IF race.made >= l
           THEN Becomes(c, [race.calls[c] EXCEPT !.pc = "Lstat", !.eexist = TRUE])
           ELSE /\ race' = [race EXCEPT
                             !.made = l,
                             !.calls[c] = Done([race.calls[c] EXCEPT
                                                  !.won = (l = CacheDepth)], l)]
                /\ UNCHANGED installVars

\* os.MkdirAll, after a failed Mkdir: Lstat of the path; a directory is
\* success, anything else the error of Mkdir, which Install returns
Lstat(c) ==
    /\ At(c, "Lstat")
    /\ LET l == race.calls[c].level
       IN  Becomes(c, IF race.made >= l THEN Done(race.calls[c], l)
                      ELSE [race.calls[c] EXCEPT !.pc = "failed"])

\* if !fs.IsDir(cacheDir)
IsDirCheck(c) ==
    /\ At(c, "IsDir")
    /\ Becomes(c, [race.calls[c] EXCEPT
                     !.pc = IF race.made = CacheDepth THEN "past" ELSE "failed"])

NextRace ==
    \E c \in Calls :
       \/ ExistsCheck(c)
       \/ Stat(c)
       \/ Mkdir(c)
       \/ Lstat(c)
       \/ IsDirCheck(c)

SpecRace == InitRace /\ [][NextRace]_vars

(* ------------------------ what the claims speak of --------------------- *)

\* the entries of a file that carry the name fn, in physical order
Named(file, fn) == SelectSeq(file.entries, LAMBDA e : e.name = fn)

\* the archive holds both control entries and the first signature entry is
\* no signature of a trusted key over the first manifest entry
SignatureRejected(file) ==
    /\ Named(file, ManifestName) # <<>>
    /\ Named(file, SigName) # <<>>
    /\ ~Verify(Head(Named(file, ManifestName)).data, Head(Named(file, SigName)).data)

\* the positions at which a line of the transcript t starts
LineStarts(t) == {s \in 1..Len(t) : s = 1 \/ t[s - 1] = NL}

\* the position after the last token of the line that starts at s
LineEnd(t, s) ==
    CHOOSE e \in s..(Len(t) + 1) :
        /\ e = Len(t) + 1 \/ t[e] = NL
        /\ \A k \in s..(e - 1) : t[k] # NL

TabsOf(t, s) == {k \in s..(LineEnd(t, s) - 1) : t[k] = TAB}

\* every line of t is "<digest>TAB<path>"
WellFormed(t) == \A s \in LineStarts(t) : Cardinality(TabsOf(t, s)) = 1

\* the <<path, digest>> pairs of the two-field lines of t
Declarations(t) ==
    {LET k == CHOOSE k \in TabsOf(t, s) : TRUE
     IN  <<SubSeq(t, k + 1, LineEnd(t, s) - 1), SubSeq(t, s, k - 1)>> :
        s \in {u \in LineStarts(t) : Cardinality(TabsOf(t, u)) = 1}}

DigestsOf(t, path) == {d[2] : d \in {c \in Declarations(t) : c[1] = path}}

\* the manifest transcript content verification reads from a file
Transcript(file) == Head(Named(file, ManifestName)).data

\* entry i of the file is a content entry: no directory, no control entry
IsContent(file, i) ==
    /\ ~file.entries[i].dir
    /\ file.entries[i].name \notin {ManifestName, SigName}

\* content entry i is in no line of the manifest
Undeclared(file, i) ==
    /\ IsContent(file, i)
    /\ DigestsOf(Transcript(file), file.entries[i].name) = {}

\* content entry i is declared, and with another digest than its bytes have
Mismatched(file, i) ==
    /\ IsContent(file, i)
    /\ DigestsOf(Transcript(file), file.entries[i].name) # {}
    /\ Sha256Hex(file.entries[i].data) \notin
          DigestsOf(Transcript(file), file.entries[i].name)

\* entry i is skipped by the traversal or is declared with the digest of its bytes
Sound(file, i) ==
    \/ ~IsContent(file, i)
    \/ DigestsOf(Transcript(file), file.entries[i].name)
          = {Sha256Hex(file.entries[i].data)}

\* the first content entry that is not sound is entry i
FirstFault(file, i) == ~Sound(file, i) /\ \A j \in 1..(i - 1) : Sound(file, j)

\* two lines of t name the same path
DuplicatePath(t) ==
    \E s \in LineStarts(t), u \in LineStarts(t) :
       /\ s < u
       /\ Cardinality(TabsOf(t, s)) = 1
       /\ Cardinality(TabsOf(t, u)) = 1
       /\ SubSeq(t, (CHOOSE k \in TabsOf(t, s) : TRUE) + 1, LineEnd(t, s) - 1)
             = SubSeq(t, (CHOOSE k \in TabsOf(t, u) : TRUE) + 1, LineEnd(t, u) - 1)

\* the packages content verification ran on
Checked == {p \in Pkg : content[p].ran}

\* content verification of p stopped at entry i, having hashed nothing after
\* it, and Install returned its error e
StoppedAt(p, i, e) ==
    /\ content[p].err = e
    /\ content[p].at = i
    /\ \A k \in DOMAIN content[p].hashed : content[p].hashed[k] <= i
    /\ pc = "returned"
    /\ err = Wrap("verifying pkg contents", e)

(* -------------------------------- claims ------------------------------- *)

\* C1: content verification of a package begins only after trust
\* verification of that same package has returned success: every content
\* verification in the log is preceded by a successful trust verification of
\* the same package, and Install stands before content verification of a
\* package only with that package's trust verification passed.
C1_TrustBeforeContent ==
    /\ \A j \in DOMAIN log :
          log[j].op = "content" =>
             \E i \in 1..(j - 1) :
                log[i].op = "trust" /\ log[i].pkg = log[j].pkg /\ log[i].ok
    /\ \A p \in Pkg :
          content[p].ran => trust[p].ran /\ trust[p].err = NoErr /\ trust[p].calls = 1
    /\ pc = "VerifyingContent" =>
          trust[ms[idx]].ran /\ trust[ms[idx]].err = NoErr

\* C1 witness: content verification ran on the second package of a batch
C1_Witness ==
    /\ Len(log) = 4
    /\ log[4].op = "content"
    /\ log[4].pkg = ms[2]

\* C2: a package whose manifest signature keyring.Verify rejects fails trust
\* verification, Install returns that error, and no digest of its content is
\* ever computed.
C2_UntrustedNeverHashed ==
    \A p \in Pkg :
       SignatureRejected(files[p]) =>
          /\ ~content[p].ran
          /\ content[p].hashed = <<>>
          /\ trust[p].ran =>
                /\ trust[p].calls = 1
                /\ trust[p].err = Failure("verifying manifest", <<>>)
                /\ pc = "returned"
                /\ err = Wrap("verifying pkg integrity", trust[p].err)

\* C2 witness: Verify rejected the signature of an archive that holds a
\* content entry its manifest declares
C2_Witness ==
    \E p \in Pkg :
       /\ SignatureRejected(files[p])
       /\ trust[p].ran
       /\ \E i \in DOMAIN files[p].entries : Sound(files[p], i) /\ IsContent(files[p], i)

\* C3: a package that passed trust verification and content verification is
\* committed: an Install whose packages all passed both does not end in a
\* failure.
C3_VerifiedIsCommitted ==
    (/\ pc = "returned"
     /\ ms # <<>>
     /\ \A p \in Range(ms) :
           /\ trust[p].ran /\ trust[p].err = NoErr
           /\ content[p].ran /\ content[p].err = NoErr)
       => err = NoResult

\* C4 as stated, on manifests whose every line has two fields: whenever an
\* archive holds a declared content entry whose bytes do not have the declared
\* digest, content verification fails with the checksum error of such an
\* entry, at that entry.
C4_AnyMismatchReported ==
    \A p \in Checked :
       (/\ WellFormed(Transcript(files[p]))
        /\ \E i \in DOMAIN files[p].entries : Mismatched(files[p], i)) =>
          \E i \in DOMAIN files[p].entries :
             /\ Mismatched(files[p], i)
             /\ StoppedAt(p, i, Failure("checksum was incorrect", files[p].entries[i].name))

\* C4 as amended: when every manifest line has two fields and the first
\* content entry that is undeclared or mismatched is a mismatched one, content
\* verification fails with the checksum error naming that entry, at that
\* entry, with no later entry hashed, and Install returns that error.
C4_FirstMismatchReported ==
    \A p \in Checked :
       \A i \in DOMAIN files[p].entries :
          (/\ WellFormed(Transcript(files[p]))
           /\ FirstFault(files[p], i)
           /\ Mismatched(files[p], i))
             => /\ StoppedAt(p, i, Failure("checksum was incorrect",
                                           files[p].entries[i].name))
                /\ content[p].hashed # <<>>
                /\ content[p].hashed[Len(content[p].hashed)] = i

\* C4 witness: the mismatched entry is followed by another entry, and is the
\* only entry hashed
C4_Witness ==
    \E p \in Checked :
       \E i \in DOMAIN files[p].entries :
          /\ WellFormed(Transcript(files[p]))
          /\ FirstFault(files[p], i)
          /\ Mismatched(files[p], i)
          /\ i < Len(files[p].entries)
          /\ Len(content[p].hashed) = 1

\* C5 as stated, on manifests whose every line has two fields: whenever an
\* archive holds a content entry that no manifest line names, content
\* verification fails with the undeclared-file error at the first such entry.
C5_AnyUndeclaredReported ==
    \A p \in Checked :
       \A i \in DOMAIN files[p].entries :
          (/\ WellFormed(Transcript(files[p]))
           /\ Undeclared(files[p], i)
           /\ \A j \in 1..(i - 1) : ~Undeclared(files[p], j))
             => StoppedAt(p, i, Failure("extra file", files[p].entries[i].name))

\* C5 as amended: when every manifest line has two fields and the first
\* content entry that is undeclared or mismatched is an undeclared one, content
\* verification fails with the undeclared-file error naming that entry, at
\* that entry, without hashing it or any later entry, and Install returns
\* that error.
C5_FirstUndeclaredReported ==
    \A p \in Checked :
       \A i \in DOMAIN files[p].entries :
          (/\ WellFormed(Transcript(files[p]))
           /\ FirstFault(files[p], i)
           /\ Undeclared(files[p], i))
             => /\ StoppedAt(p, i, Failure("extra file", files[p].entries[i].name))
                /\ \A k \in DOMAIN content[p].hashed : content[p].hashed[k] < i

\* C5 witness: the undeclared entry is followed by a declared entry
C5_Witness ==
    \E p \in Checked :
       \E i \in DOMAIN files[p].entries :
          /\ WellFormed(Transcript(files[p]))
          /\ FirstFault(files[p], i)
          /\ Undeclared(files[p], i)
          /\ i < Len(files[p].entries)
          /\ IsContent(files[p], i + 1)
          /\ ~Undeclared(files[p], i + 1)

\* C6: content verification succeeds only if every path the manifest declares
\* was met as a content entry of the archive.
C6_EveryDeclaredObserved ==
    \A p \in Checked :
       content[p].err = NoErr =>
          \A d \in Declarations(Transcript(files[p])) :
             \E i \in DOMAIN files[p].entries :
                IsContent(files[p], i) /\ files[p].entries[i].name = d[1]

\* C7: a manifest that names one path on two lines is rejected as a format
\* error, and no entry is hashed against it (stated on the archives that hold
\* a content entry of a path the manifest gives two digests).
C7_DuplicatePathRejected ==
    \A p \in Checked :
       (/\ DuplicatePath(Transcript(files[p]))
        /\ \E i \in DOMAIN files[p].entries :
              /\ IsContent(files[p], i)
              /\ Cardinality(DigestsOf(Transcript(files[p]),
                                       files[p].entries[i].name)) > 1)
          => /\ content[p].err = Failure("manifest format error", <<>>)
             /\ content[p].hashed = <<>>

\* C8: a manifest with a line that does not have exactly two tab-separated
\* fields fails the parse with a format error; the traversal never starts, no
\* entry is hashed, and Install returns that error.
C8_MalformedLineRejectsAll ==
    \A p \in Checked :
       ~WellFormed(Transcript(files[p])) =>
          /\ StoppedAt(p, 0, Failure("manifest format error", <<>>))
          /\ content[p].hashed = <<>>

\* C8 witness: the malformed line follows a line that declared a path, and
\* the archive holds a content entry of that path
C8_Witness ==
    \E p \in Checked :
       /\ ~WellFormed(Transcript(files[p]))
       /\ content[p].cs # EmptyMap
       /\ \E i \in DOMAIN files[p].entries :
             IsContent(files[p], i) /\ files[p].entries[i].name \in DOMAIN content[p].cs

\* Install returned the error of db.LoadAvailable or of av.Installable
ResolveFailed ==
    /\ pc = "returned"
    /\ err.stage \in {"loading available db", "checking ability to install"}

\* Install returned the error of download
FetchFailed ==
    /\ pc = "returned"
    /\ err.stage = "downloading"

\* C9: a request the catalog cannot resolve makes Install return the
\* resolution error, and an Install that returned a resolution error issued no
\* GET, created no cache directory and no cache file, and verified nothing.
C9_ResolveFailureBeforeIO ==
    /\ (Unknown \in Range(pkgs) /\ pc # "Resolving") => ResolveFailed
    /\ ResolveFailed =>
          /\ gets = <<>>
          /\ writes = <<>>
          /\ log = <<>>
          /\ handles = 0
          /\ \A p \in Pkg : ~trust[p].ran /\ ~content[p].ran

\* C9 witness: a request with an unknown and a known name failed to resolve
\* where the cache directory was still to be created
C9_Witness ==
    /\ ResolveFailed
    /\ Unknown \in Range(pkgs)
    /\ Range(pkgs) \cap Pkg # {}
    /\ cacheDir = "absent"

C11_FailedFetchAborts ==
    \A i \in DOMAIN gets :
       (\/ remote[gets[i]].kind = "neterr"
        \/ remote[gets[i]].kind = "response" /\ remote[gets[i]].status # "200")
          => /\ FetchFailed
             /\ i = Len(gets)
             /\ ~trust[gets[i]].ran

\* C12: when Install has returned, no handle on an archive is still open
\* (stated on the runs whose cache files are complete tar files).
C12_NoHandleLeftOpen ==
    (pc = "returned" /\ \A p \in Range(gets) : files[p].intact) => handles = 0

\* C13: the manifest bytes content verification parsed are the bytes trust
\* verification handed to keyring.Verify for the same package.
C13_SameManifestBytes ==
    \A p \in Checked :
       /\ trust[p].calls = 1
       /\ content[p].bytes = trust[p].bytes
       /\ content[p].bytes = Head(Named(files[p], ManifestName)).data

\* C13 witness: content verification ran on an archive that holds two
\* manifest entries of different bytes
C13_Witness ==
    \E p \in Checked :
       /\ Len(Named(files[p], ManifestName)) = 2
       /\ Named(files[p], ManifestName)[1].data # Named(files[p], ManifestName)[2].data

\* C14: a fetch that succeeded leaves in the cache file of its package exactly
\* the response body, whatever the file held before.
C14_FetchedFileIsBody ==
    [][(pc = "Fetching" /\ idx' = idx + 1)
          => files'[ms[idx]] = remote[ms[idx]].body]_vars

\* a file of an earlier install, longer than the body, was overwritten
C14_Witness ==
    \E i \in DOMAIN writes :
       /\ writes[i].op = "Truncate"
       /\ files[writes[i].pkg] = remote[writes[i].pkg].body
       /\ Len(files[writes[i].pkg].entries) < 3
       /\ pc = "VerifyingTrust"

\* the wrapping message of a verification stage, and the error its call on
\* a package returned
StageOf(op) ==
    IF op = "trust" THEN "verifying pkg integrity" ELSE "verifying pkg contents"

ResultOf(ev) ==
    IF ev.op = "trust" THEN trust[ev.pkg].err ELSE content[ev.pkg].err

\* C15: a failed verification call is the last one: Install has returned its
\* error under the message of its stage, and no verification of either kind
\* ran for a package at a later position of the resolved list.
C15_VerificationFailFast ==
    \A j \in DOMAIN log :
       ~log[j].ok
          => /\ j = Len(log)
             /\ pc = "returned"
             /\ err = Wrap(StageOf(log[j].op), ResultOf(log[j]))
             /\ \A k \in DOMAIN ms :
                   ms[k] = log[j].pkg
                      => \A n \in (k + 1)..Len(ms) :
                            ~trust[ms[n]].ran /\ ~content[ms[n]].ran

\* the first of two packages failed content verification, and the second
\* one's archive would have passed trust verification
C15_Witness ==
    /\ Len(ms) = 2
    /\ log # <<>>
    /\ log[Len(log)] = [op |-> "content", pkg |-> ms[1], ok |-> FALSE]
    /\ verifyManifestIntegrity(files[ms[2]]).err = NoErr

\* the packages whose trust verification ran
Judged == {p \in Pkg : trust[p].ran}

\* C16: on the cache file of a package whose trust verification ran,
\* getReadCloser yields the first entry of the name asked for when the file
\* has one, and a not-found error when a complete file has none; a complete
\* file lacking the manifest or the signature fails trust verification with
\* that error and without a call of keyring.Verify; otherwise Verify is called
\* once, on the first manifest and the first signature.
C16_FirstMatchOrNotFound ==
    \A p \in Judged :
       /\ \A fn \in {ManifestName, SigName} :
             LET r == getReadCloser(files[p], fn)
             IN  IF Named(files[p], fn) # <<>>
                 THEN /\ r.err = NoErr
                      /\ r.at \in DOMAIN files[p].entries
                      /\ files[p].entries[r.at].name = fn
                      /\ \A k \in 1..(r.at - 1) : files[p].entries[k].name # fn
                 ELSE files[p].intact => r.err = Failure("not found", fn)
       /\ IF Named(files[p], ManifestName) = <<>> \/ Named(files[p], SigName) = <<>>
          THEN /\ trust[p].calls = 0
               /\ trust[p].err # NoErr
               /\ pc = "returned"
               /\ err.stage = "verifying pkg integrity"
               /\ files[p].intact
                     => trust[p].err =
                           Failure("not found",
                                   IF Named(files[p], ManifestName) = <<>>
                                   THEN ManifestName ELSE SigName)
          ELSE /\ trust[p].calls = 1
               /\ trust[p].err = NoErr
                     <=> Verify(Head(Named(files[p], ManifestName)).data,
                                Head(Named(files[p], SigName)).data)

\* an archive whose first signature is by a key outside the keyring and
\* whose second is by a key of it
C16_Witness ==
    \E p \in Judged :
       /\ Len(Named(files[p], SigName)) = 2
       /\ ~Verify(Head(Named(files[p], ManifestName)).data,
                  Named(files[p], SigName)[1].data)
       /\ Verify(Head(Named(files[p], ManifestName)).data,
                 Named(files[p], SigName)[2].data)
       /\ trust[p].err = Failure("verifying manifest", <<>>)

\* the transcript t without its last token
Chop(t) == SubSeq(t, 1, Len(t) - 1)

\* t ends with a newline
Ended(t) == t # <<>> /\ t[Len(t)] = NL

FormatError == Failure("manifest format error", <<>>)

\* C17: well-formed newline-terminated lines followed by one empty line parse
\* without a format error, to the mapping of the transcript without the empty
\* line.
C17_BlankTrailingLineTolerated ==
    \A p \in Checked :
       LET t == Transcript(files[p])
       IN  (Ended(t) /\ Ended(Chop(t)) /\ WellFormed(Chop(t)))
              => /\ content[p].err # FormatError
                 /\ content[p].cs = ParseManifest(Chop(t)).cs

\* C19: Install terminates: every run reaches the state in which it has
\* returned, also when a source never answers.
C19_InstallTerminates == <>(pc = "returned")

\* the filesystem changes Install may make: MkdirAll of the cache directory,
\* and os.Create of the cache file of a resolved package
CacheWrites ==
    {Written("MkdirAll", 0)}
        \cup {Written(op, p) : op \in {"Create", "Truncate"}, p \in Range(ms)}

C18_ConcurrentSetupSafe ==
    /\ \A c \in DOMAIN race.calls :
          /\ ~At(c, "failed")
          /\ At(c, "past") => race.made = CacheDepth
    /\ Cardinality({c \in DOMAIN race.calls : race.calls[c].won}) <= 1

\* two calls found the cache directory missing and are both past the setup:
\* one made the directory, the other's Mkdir of it failed
C18_Witness ==
    \E c, d \in DOMAIN race.calls :
       /\ At(c, "past") /\ At(d, "past")
       /\ race.calls[c].missing /\ race.calls[d].missing
       /\ race.calls[c].won
       /\ race.calls[d].eexist /\ ~race.calls[d].won

====
